---- MODULE Spec2Model ----
(***************************************************************************)
(* Model of src/zscaler_url_automation.py: the command line entry point    *)
(* main() and the three modifying operations of ZscalerURLAutomation       *)
(* (add_category_to_rule, block_url_in_rule, update_rule_action), run      *)
(* against a remote ZIA tenant that holds URL filtering rules and URL      *)
(* categories.  Every call of the SDK is one step; what the remote answers *)
(* (data, an error element in the result tuple, or an exception) is drawn  *)
(* nondeterministically at the step that makes the call.                   *)
(***************************************************************************)
EXTENDS Integers, Sequences, FiniteSets, TLC

VARIABLES
    rules,      \* remote: sequence of URL filtering rules
    cats,       \* remote: sequence of URL categories
    shape,      \* how the SDK hands a rule back: a dict, or a plain object
    pc,         \* per invocation: position in main()
    args,       \* per invocation: the parsed command line
    success,    \* per invocation: main's `success` variable
    exitCode,   \* per invocation: argument of sys.exit, -1 while running
    loc,        \* per invocation: locals of the running operation
    res,        \* per invocation: what each operation returned
    last,       \* per invocation: the SDK call made last
    pre,        \* per invocation: the remote as it was when the running operation began
    doneBefore  \* per invocation: the invocations that had exited when it started

vars == <<rules, cats, shape, pc, args, success, exitCode, loc, res, last, pre, doneBefore>>

----------------------------------------------------------------------------
(* Bounds and value sets *)

\* longest url category list of the rule, longest url list of the category, at the start
MaxInitLen == 2
MaxInitUrls == 1

Procs == {1, 2}

None == "none"

\* category identifiers as the command line gives them; "a" and "A" differ in case only
CatArgs == {"a", "A"}
UrlArgs == {"x", "X"}
\* actions as a caller may give them: valid, valid after upper-casing, not valid
ActionArgs == {"BLOCK", "block", "DENY"}
RuleArgs == {"R1", "zz"}

BlockName == "Blocked_URLs_Automation"

Range(s) == {s[i] : i \in 1..Len(s)}


Min(S) == CHOOSE x \in S : \A y \in S : x <= y

----------------------------------------------------------------------------
(* The remote tenant *)

Remote == [rules |-> rules, cats |-> cats]

\* result tuples of the SDK: data with no error element, an error element, or an exception
ReadOutcomes == {"ok", "error", "raise"}
WriteOutcomes == {"ok", "error", "raise"}

\* what the remote lists hold at the start: the first entries of these
InitCategories == <<"b", "a", "d", "e">>
InitUrls == <<"x", "z", "w">>

Prefixes(s, n) == {SubSeq(s, 1, k) : k \in 0..n}

NewIds == <<"c1", "c2", "c3", "c4">>

\* url_filtering.update_rule(rule_id=..., <field>=value): replaces that field of the rule
RemoteUpdateRule(rs, rule_id, field, value) ==
    [i \in 1..Len(rs) |->
        IF rs[i].id = rule_id THEN [rs[i] EXCEPT ![field] = value] ELSE rs[i]]

\* url_categories.add_url_category(configured_name=..., urls=[]): a new category with a fresh id
RemoteAddUrlCategory(cs, name) ==
    Append(cs, [id |-> NewIds[Len(cs)], configuredName |-> name, urls |-> <<>>])

\* url_categories.add_urls_to_category(category_id, urls=[url]): incremental add
RemoteAddUrls(cs, category_id, url) ==
    [i \in 1..Len(cs) |->
        IF cs[i].id = category_id /\ url \notin Range(cs[i].urls)
        THEN [cs[i] EXCEPT !.urls = Append(@, url)] ELSE cs[i]]

\* url_categories.update_url_category(category_id, urls=new_urls): replaces the url list
RemoteUpdateUrlCategory(cs, category_id, new_urls) ==
    [i \in 1..Len(cs) |->
        IF cs[i].id = category_id THEN [cs[i] EXCEPT !.urls = new_urls] ELSE cs[i]]

CatUrls(cs, category_id) ==
    LET hits == {i \in 1..Len(cs) : cs[i].id = category_id}
    IN IF hits = {} THEN <<>> ELSE cs[Min(hits)].urls

RuleCats(rs, rule_id) ==
    LET hits == {i \in 1..Len(rs) : rs[i].id = rule_id}
    IN IF hits = {} THEN <<>> ELSE rs[Min(hits)].urlCategories

----------------------------------------------------------------------------
(* Helpers of the operations *)

NoneRule == [none |-> TRUE]

IsNone(d) == "none" \in DOMAIN d

\* rule.get(key, default)
DictGet(d, k, default) == IF k \in DOMAIN d THEN d[k] ELSE default

\* get_rule_by_name, the return of the matching rule: a dict as it is, a plain
\* object reduced to {'id', 'name'}
RuleToDict(r, shp) ==
    IF shp = "dict"
    THEN [id |-> r.id, name |-> r.name, urlCategories |-> r.urlCategories, action |-> r.action]
    ELSE [id |-> r.id, name |-> r.name]

\* get_rule_by_name, the loop: the first rule whose name or id equals rule_name
FindRuleLastScanned(rs, rule_name) ==
    LET hits == {i \in 1..Len(rs) : rs[i].name = rule_name \/ rs[i].id = rule_name}
    IN IF hits = {} THEN 0 ELSE Len(rs)
FindRule(rs, rule_name) ==
    LET hits == {i \in 1..Len(rs) : rs[i].name = rule_name \/ rs[i].id = rule_name}
    IN IF hits = {} THEN 0 ELSE Min(hits)

\* get_rule_by_name: None on an error element, on an exception and when no rule matches
GetRuleByName(rs, rule_name, out, shp) ==
    IF out # "ok" THEN NoneRule
    ELSE LET i == FindRule(rs, rule_name)
         IN IF i = 0 THEN NoneRule ELSE RuleToDict(rs[i], shp)

\* `category_id in current_categories`, `url not in current_urls`
AlreadyPresentHeadOnly(entry, current) == current # <<>> /\ current[1] = entry
AlreadyPresent(entry, current) == entry \in Range(current)

\* `list(current_categories) + [category_id]`, `list(current_urls) + [url]`
NewListPrepend(current, entry) == <<entry>> \o current
NewList(current, entry) == Append(current, entry)

\* `isinstance(result, tuple) and len(result) >= 3 and result[2]`
HasErrorIgnored(out) == FALSE
HasError(out) == out \in {"error", "exists"}

\* `"already exists" in str(result[2]).lower()`
SaysAlreadyExistsNever(out) == FALSE
SaysAlreadyExists(out) == out = "exists"

\* _get_or_create_block_category: `categories = result[0] if result[0] else []`
CategoriesOf(out, cs) == IF out = "ok" THEN cs ELSE <<>>

\* _get_or_create_block_category, the loop: the first category named category_name
FindCategory(categories, category_name) ==
    LET hits == {i \in 1..Len(categories) : categories[i].configuredName = category_name}
    IN IF hits = {} THEN 0 ELSE Min(hits)

valid_actions == {"ALLOW", "BLOCK", "CAUTION", "ISOLATE"}

Upper(s) ==
    CASE s = "block" -> "BLOCK"
      [] s = "allow" -> "ALLOW"
      [] s = "deny" -> "DENY"
      [] OTHER -> s

\* `action.upper() not in valid_actions`, negated
ValidActionAny(action) == TRUE
ValidAction(action) == Upper(action) \in valid_actions

----------------------------------------------------------------------------
(* main(): the command line and the order of the operations *)

\* choices of --update-action
ActionChoices == {"ALLOW", "BLOCK", "CAUTION", "ISOLATE"}

\* a parsed command line; dry_run stands for an option main's parser does not define,
\* direct is set when a method is called without main()
ArgSets ==
    [rule : RuleArgs \cup {None}, add : CatArgs \cup {None}, block : UrlArgs \cup {None},
     action : ActionArgs \cup {None}, dry_run : BOOLEAN, direct : {FALSE}]

\* parser.parse_args() and the two parser.error checks: argparse exits with 2
ParseFails(a) ==
    \/ a.dry_run
    \/ a.action \notin ActionChoices \cup {None}
    \/ (a.add = None /\ a.block = None /\ a.action = None)
    \/ a.rule = None

\* the `if args.<operation>:` chain of main, from the first operation on
FirstPc(a) ==
    IF a.add # None THEN "add_fetch"
    ELSE IF a.block # None THEN "blk_list"
    ELSE IF a.action # None THEN "act_fetch"
    ELSE "exited"

\* the `if args.<operation>:` chain of main, after operation op
NextPc(a, op) ==
    IF a.direct THEN "returned"
    ELSE IF op = "add" /\ a.block # None THEN "blk_list"
    ELSE IF op \in {"add", "block"} /\ a.action # None THEN "act_fetch"
    ELSE "exited"

\* sys.exit(0 if success else 1)
ExitOf(ok) == IF ok THEN 0 ELSE 1

\* locals of an operation, and what it has called so far: writes counts its calls that
\* modify the remote, updates its update_rule calls, failedRead names the read of it that
\* came back with an error element or raised
LocInit == [op |-> None, rule_id |-> None, category_id |-> None,
            current |-> <<>>, new |-> <<>>,
            writes |-> 0, updates |-> 0, failedRead |-> None]

ResInit == [add |-> None, block |-> None, action |-> None]

NoCall == [op |-> None, call |-> None, kind |-> None, payload |-> <<>>,
           base |-> <<>>, based |-> FALSE, out |-> None]

Str(b) == IF b THEN "True" ELSE "False"

\* one call of the SDK. A write: payload is the list it sends, base the fetched list the
\* payload was built from (based says there is one). A read: base is the list the caller
\* took from the answer (based says it took one)
Call(op, name, kind, payload, base, based, out) ==
    [op |-> op, call |-> name, kind |-> kind, payload |-> payload,
     base |-> base, based |-> based, out |-> out]

Count(l, calls) ==
    IF calls = <<>> THEN l
    ELSE [l EXCEPT !.writes = @ + (IF calls[1].kind = "write" THEN 1 ELSE 0),
                   !.updates = @ + (IF calls[1].call = "update_rule" THEN 1 ELSE 0),
                   !.failedRead = IF calls[1].kind = "read" /\ calls[1].out # "ok"
                                 THEN calls[1].call ELSE @]

\* the operation goes on to its next SDK call
Continue(p, calls, newloc, newpc) ==
    /\ last' = [last EXCEPT ![p] = IF calls = <<>> THEN @ ELSE calls[1]]
    /\ loc' = [loc EXCEPT ![p] = Count(newloc, calls)]
    /\ pc' = [pc EXCEPT ![p] = newpc]
    /\ UNCHANGED <<res, success, exitCode>>

\* the operation returns r to main, which goes on to the next operation or exits
Return(p, op, base, calls, r) ==
    /\ last' = [last EXCEPT ![p] = IF calls = <<>> THEN @ ELSE calls[1]]
    /\ loc' = [loc EXCEPT ![p] = Count([base EXCEPT !.op = op], calls)]
    /\ res' = [res EXCEPT ![p][op] = Str(r)]
    /\ success' = [success EXCEPT ![p] = r]
    /\ pc' = [pc EXCEPT ![p] = NextPc(args[p], op)]
    /\ exitCode' = [exitCode EXCEPT ![p] =
                        IF NextPc(args[p], op) = "exited" THEN ExitOf(r) ELSE @]

\* main() up to the first operation
MainStart(p, a) ==
    /\ pc[p] = "idle"
    /\ args' = [args EXCEPT ![p] = a]
    /\ doneBefore' = [doneBefore EXCEPT ![p] = {q \in Procs : pc[q] = "exited"}]
    /\ IF ParseFails(a)
       THEN /\ pc' = [pc EXCEPT ![p] = "exited"]
            /\ exitCode' = [exitCode EXCEPT ![p] = 2]
       ELSE /\ pc' = [pc EXCEPT ![p] = FirstPc(a)]
            /\ UNCHANGED exitCode
    /\ UNCHANGED <<rules, cats, shape, success, loc, res, last, pre>>

\* one invocation of the script, any command line
Start ==
    \E a \in ArgSets : MainStart(1, a)

----------------------------------------------------------------------------
(* add_category_to_rule and _add_category_to_rule: the same two steps *)

\* get_rule_by_name, the membership test and the new list
RuleFetch(p, op, base, category_id, writePc) ==
    \E out \in ReadOutcomes :
        LET rule == GetRuleByName(rules, args[p].rule, out, shape)
            current == DictGet(rule, "urlCategories", <<>>)
            call == Call(op, "list_rules", "read", <<>>, current, ~IsNone(rule), out)
        IN IF IsNone(rule)
           THEN Return(p, op, base, <<call>>, FALSE)
           ELSE IF AlreadyPresent(category_id, current)
           THEN Return(p, op, base, <<call>>, TRUE)
           ELSE Continue(p, <<call>>,
                         [base EXCEPT !.op = op, !.rule_id = DictGet(rule, "id", None),
                                      !.current = current,
                                      !.new = NewList(current, category_id)],
                         writePc)

\* url_filtering.update_rule(rule_id=rule_id, url_categories=new_categories)
RuleWrite(p, op) ==
    \E out \in WriteOutcomes \cup {"exists"} :
        LET call == Call(op, "update_rule", "write", loc[p].new, loc[p].current, TRUE, out)
        IN /\ rules' = IF out = "ok"
                       THEN RemoteUpdateRule(rules, loc[p].rule_id, "urlCategories", loc[p].new)
                       ELSE rules
           /\ Return(p, op, loc[p], <<call>>, out # "raise" /\ ~HasError(out))

AddCategoryFetch(p) ==
    /\ pc[p] = "add_fetch"
    /\ pre' = [pre EXCEPT ![p] = Remote]
    /\ RuleFetch(p, "add", LocInit, args[p].add, "add_write")
    /\ UNCHANGED <<rules, cats, shape, args, doneBefore>>

AddCategoryWrite(p) ==
    /\ pc[p] = "add_write"
    /\ RuleWrite(p, "add")
    /\ UNCHANGED <<cats, shape, args, doneBefore, pre>>

----------------------------------------------------------------------------
(* block_url_in_rule *)

\* step 1, _get_or_create_block_category: url_categories.list_categories()
BlockListCategories(p) ==
    /\ pc[p] = "blk_list"
    /\ pre' = [pre EXCEPT ![p] = Remote]
    /\ \E out \in ReadOutcomes :
        LET call == Call("block", "list_categories", "read", <<>>, <<>>, FALSE, out)
            categories == CategoriesOf(out, cats)
            i == FindCategory(categories, BlockName)
        IN IF out = "raise"
           THEN Return(p, "block", LocInit, <<call>>, FALSE)
           ELSE IF i # 0
           THEN Continue(p, <<call>>,
                         [LocInit EXCEPT !.op = "block", !.category_id = categories[i].id],
                         "blk_addurl")
           ELSE Continue(p, <<call>>, [LocInit EXCEPT !.op = "block"], "blk_create")
    /\ UNCHANGED <<rules, cats, shape, args, doneBefore>>

\* step 1, _get_or_create_block_category: url_categories.add_url_category(...), by the
\* first of the three signatures the SDK accepts (a TypeError is raised before any
\* request is sent); "empty" is an answer with neither data nor error element
BlockCreateCategory(p) ==
    /\ pc[p] = "blk_create"
    /\ \E out \in WriteOutcomes \cup {"empty"} :
        LET call == Call("block", "add_url_category", "write", <<>>, <<>>, FALSE, out)
        IN IF out = "raise" \/ HasError(out) \/ out = "empty"
           THEN /\ Return(p, "block", loc[p], <<call>>, FALSE)
                /\ UNCHANGED cats
           ELSE /\ cats' = RemoteAddUrlCategory(cats, BlockName)
                /\ Continue(p, <<call>>, [loc[p] EXCEPT !.category_id = NewIds[Len(cats)]],
                            "blk_addurl")
    /\ UNCHANGED <<rules, shape, args, doneBefore, pre>>

\* step 2, _add_url_to_category, method 1: url_categories.add_urls_to_category(...);
\* "typeerror" is the TypeError or AttributeError that sends the code to method 2
BlockAddUrls(p) ==
    /\ pc[p] = "blk_addurl"
    /\ \E out \in WriteOutcomes \cup {"exists", "typeerror"} :
        LET call == Call("block", "add_urls_to_category", "write", <<args[p].block>>,
                         <<>>, FALSE, out)
        IN /\ out = "exists" => args[p].block \in Range(CatUrls(cats, loc[p].category_id))
           /\ cats' = IF out = "ok"
                      THEN RemoteAddUrls(cats, loc[p].category_id, args[p].block)
                      ELSE cats
           /\ IF out = "typeerror"
              THEN Continue(p, <<>>, loc[p], "blk_getcat")
              ELSE IF out = "raise" \/ (HasError(out) /\ ~SaysAlreadyExists(out))
              THEN Return(p, "block", loc[p], <<call>>, FALSE)
              ELSE Continue(p, <<call>>, loc[p], "blk_rulefetch")
    /\ UNCHANGED <<rules, shape, args, doneBefore, pre>>

\* step 2, _add_url_to_category, method 2: url_categories.get_category(category_id)
BlockGetCategory(p) ==
    /\ pc[p] = "blk_getcat"
    /\ \E out \in ReadOutcomes :
        LET current_urls == IF out = "ok" THEN CatUrls(cats, loc[p].category_id) ELSE <<>>
            call == Call("block", "get_category", "read", <<>>, current_urls,
                         out # "raise", out)
        IN IF out = "raise"
           THEN Return(p, "block", loc[p], <<call>>, FALSE)
           ELSE IF AlreadyPresent(args[p].block, current_urls)
           THEN Continue(p, <<call>>, loc[p], "blk_rulefetch")
           ELSE Continue(p, <<call>>,
                         [loc[p] EXCEPT !.current = current_urls,
                                        !.new = NewList(current_urls, args[p].block)],
                         "blk_updcat")
    /\ UNCHANGED <<rules, cats, shape, args, doneBefore, pre>>

\* step 2, _add_url_to_category, method 2: url_categories.update_url_category(...)
BlockUpdateCategory(p) ==
    /\ pc[p] = "blk_updcat"
    /\ \E out \in WriteOutcomes \cup {"exists"} :
        LET call == Call("block", "update_url_category", "write", loc[p].new,
                         loc[p].current, TRUE, out)
        IN /\ out = "exists" => args[p].block \in Range(CatUrls(cats, loc[p].category_id))
           /\ cats' = IF out = "ok"
                      THEN RemoteUpdateUrlCategory(cats, loc[p].category_id, loc[p].new)
                      ELSE cats
           /\ IF out = "raise" \/ (HasError(out) /\ ~SaysAlreadyExists(out))
              THEN Return(p, "block", loc[p], <<call>>, FALSE)
              ELSE Continue(p, <<call>>, loc[p], "blk_rulefetch")
    /\ UNCHANGED <<rules, shape, args, doneBefore, pre>>

\* step 3, _add_category_to_rule: get_rule_by_name
BlockRuleFetch(p) ==
    /\ pc[p] = "blk_rulefetch"
    /\ RuleFetch(p, "block", loc[p], loc[p].category_id, "blk_rulewrite")
    /\ UNCHANGED <<rules, cats, shape, args, doneBefore, pre>>

\* step 3, _add_category_to_rule: url_filtering.update_rule(...)
BlockRuleWrite(p) ==
    /\ pc[p] = "blk_rulewrite"
    /\ RuleWrite(p, "block")
    /\ UNCHANGED <<cats, shape, args, doneBefore, pre>>

----------------------------------------------------------------------------
(* update_rule_action *)

\* the check of the action, then get_rule_by_name
ActionFetch(p) ==
    /\ pc[p] = "act_fetch"
    /\ pre' = [pre EXCEPT ![p] = Remote]
    /\ IF ~ValidAction(args[p].action)
       THEN Return(p, "action", LocInit, <<>>, FALSE)
       ELSE \E out \in ReadOutcomes :
            LET rule == GetRuleByName(rules, args[p].rule, out, shape)
                call == Call("action", "list_rules", "read", <<>>, <<>>, FALSE, out)
            IN IF IsNone(rule)
               THEN Return(p, "action", LocInit, <<call>>, FALSE)
               ELSE Continue(p, <<call>>,
                             [LocInit EXCEPT !.op = "action", !.rule_id = DictGet(rule, "id", None)],
                             "act_write")
    /\ UNCHANGED <<rules, cats, shape, args, doneBefore>>

\* url_filtering.update_rule(rule_id=rule_id, action=action.upper())
ActionWrite(p) ==
    /\ pc[p] = "act_write"
    /\ \E out \in WriteOutcomes \cup {"exists"} :
        LET call == Call("action", "update_rule", "write", <<Upper(args[p].action)>>,
                         <<>>, FALSE, out)
        IN /\ rules' = IF out = "ok"
                       THEN RemoteUpdateRule(rules, loc[p].rule_id, "action",
                                             Upper(args[p].action))
                       ELSE rules
           /\ Return(p, "action", loc[p], <<call>>, out # "raise" /\ ~HasError(out))
    /\ UNCHANGED <<cats, shape, args, doneBefore, pre>>

----------------------------------------------------------------------------
(* Specification *)

DecoyCategory == [id |-> "c0", configuredName |-> "Other", urls |-> <<"y">>]

InitRemote ==
    /\ \E l \in Prefixes(InitCategories, MaxInitLen) :
        rules = << [id |-> "1", name |-> "R1", urlCategories |-> l, action |-> "ALLOW"],
                   [id |-> "2", name |-> "R2", urlCategories |-> <<"b">>, action |-> "ALLOW"] >>
    /\ \/ cats = <<DecoyCategory>>
       \/ \E u \in Prefixes(InitUrls, MaxInitUrls) :
            cats = <<DecoyCategory, [id |-> "c1", configuredName |-> BlockName, urls |-> u]>>
    /\ shape \in {"dict", "plain"}

InitLocal ==
    /\ pc = [p \in Procs |-> "idle"]
    /\ args = [p \in Procs |-> [rule |-> None, add |-> None, block |-> None,
                                action |-> None, dry_run |-> FALSE, direct |-> FALSE]]
    /\ success = [p \in Procs |-> TRUE]
    /\ exitCode = [p \in Procs |-> -1]
    /\ loc = [p \in Procs |-> LocInit]
    /\ res = [p \in Procs |-> ResInit]
    /\ last = [p \in Procs |-> NoCall]
    /\ pre = [p \in Procs |-> Remote]
    /\ doneBefore = [p \in Procs |-> {}]

Init == InitRemote /\ InitLocal

Operation(p) ==
    \/ AddCategoryFetch(p)
    \/ AddCategoryWrite(p)
    \/ BlockListCategories(p)
    \/ BlockCreateCategory(p)
    \/ BlockAddUrls(p)
    \/ BlockGetCategory(p)
    \/ BlockUpdateCategory(p)
    \/ BlockRuleFetch(p)
    \/ BlockRuleWrite(p)
    \/ ActionFetch(p)
    \/ ActionWrite(p)

Next ==
    \/ Start
    \/ \E p \in Procs : Operation(p)

Spec == Init /\ [][Next]_vars

----------------------------------------------------------------------------
(* The same command run a second time, after the first run has exited *)

\* a command line with one operation
SingleArgs ==
    {a \in ArgSets : /\ ~ParseFails(a)
                     /\ a.action = None
                     /\ (a.add = None) # (a.block = None)}

StartFirst ==
    \E a \in SingleArgs : MainStart(1, a)

StartAgain ==
    /\ pc[1] = "exited"
    /\ MainStart(2, args[1])

NextRepeat ==
    \/ StartFirst
    \/ StartAgain
    \/ \E p \in Procs :
        \/ AddCategoryFetch(p)
        \/ AddCategoryWrite(p)
        \/ BlockListCategories(p)
        \/ BlockCreateCategory(p)
        \/ BlockAddUrls(p)
        \/ BlockGetCategory(p)
        \/ BlockUpdateCategory(p)
        \/ BlockRuleFetch(p)
        \/ BlockRuleWrite(p)

SpecRepeat == Init /\ [][NextRepeat]_vars

----------------------------------------------------------------------------
(* Two invocations of --add-category on the same rule, in any interleaving *)

ConcArgs ==
    {a \in ArgSets : /\ ~ParseFails(a)
                     /\ a.rule = "R1" /\ a.add # None
                     /\ a.block = None /\ a.action = None}

StartConc(p) ==
    /\ p = 2 => pc[1] # "idle"
    /\ \E a \in ConcArgs : MainStart(p, a)

NextConc ==
    \E p \in Procs :
        \/ StartConc(p)
        \/ AddCategoryFetch(p)
        \/ AddCategoryWrite(p)

SpecConc == Init /\ [][NextConc]_vars

----------------------------------------------------------------------------
(* update_rule_action called as a method, with any action string *)

CallUpdateRuleAction ==
    /\ pc[1] = "idle"
    /\ \E rule_name \in RuleArgs, action \in ActionArgs :
        args' = [args EXCEPT ![1] = [rule |-> rule_name, add |-> None, block |-> None,
                                     action |-> action, dry_run |-> FALSE, direct |-> TRUE]]
    /\ pc' = [pc EXCEPT ![1] = "act_fetch"]
    /\ UNCHANGED <<rules, cats, shape, success, exitCode, loc, res, last, pre, doneBefore>>

NextAction ==
    \/ CallUpdateRuleAction
    \/ \E p \in Procs :
        \/ ActionFetch(p)
        \/ ActionWrite(p)

SpecAction == Init /\ [][NextAction]_vars

----------------------------------------------------------------------------
(* Properties *)

\* case folding, for the comparisons the properties make
Lower(s) ==
    CASE s = "A" -> "a"
      [] s = "B" -> "b"
      [] s = "X" -> "x"
      [] s = "Y" -> "y"
      [] OTHER -> s

FoldUnique(s) == \A i, j \in 1..Len(s) : i # j => Lower(s[i]) # Lower(s[j])

\* the url is in a category named Blocked_URLs_Automation that is in the rule's list
BlockedIn(rem, rule_id, url) ==
    \E i \in 1..Len(rem.cats) :
        /\ rem.cats[i].configuredName = BlockName
        /\ url \in Range(rem.cats[i].urls)
        /\ rem.cats[i].id \in Range(RuleCats(rem.rules, rule_id))

\* the entry the operation of the last call is adding
Desired(p) ==
    IF last[p].op = "add" THEN args[p].add
    ELSE IF last[p].call = "update_rule" THEN loc[p].category_id
    ELSE args[p].block

\* C1: a run in dry-run mode on a rule that lacks the category to add ends with a
\* non-error status and has issued no write call.
C1_DryRunEndsDryRun ==
    \A p \in Procs :
        (/\ pc[p] = "exited"
         /\ args[p].dry_run
         /\ args[p].rule = "R1"
         /\ args[p].add # None
         /\ args[p].add \notin Range(RuleCats(rules, "1")))
        => (exitCode[p] = 0 /\ loc[p].writes = 0)

\* C2: when the rule just fetched already lists the category to add, the operation
\* (add_category_to_rule, and step 3 of block_url_in_rule) has returned True without
\* calling update_rule, and the remote rules are as they were when it began.
C2_NoOpWhenPresent ==
    \A p \in Procs :
        /\ (/\ last[p].call = "list_rules" /\ last[p].op = "add" /\ last[p].based
            /\ args[p].add \in Range(last[p].base))
           => (/\ res[p].add = "True"
               /\ pc[p] # "add_write"
               /\ loc[p].updates = 0 /\ loc[p].writes = 0
               /\ rules = pre[p].rules)
        /\ (/\ last[p].call = "list_rules" /\ last[p].op = "block" /\ last[p].based
            /\ loc[p].category_id \in Range(last[p].base))
           => (/\ res[p].block = "True"
               /\ pc[p] # "blk_rulewrite"
               /\ loc[p].updates = 0
               /\ rules = pre[p].rules)

C2_WitnessAdd ==
    \E p \in Procs :
        /\ last[p].call = "list_rules" /\ last[p].op = "add" /\ last[p].based
        /\ args[p].add \in Range(last[p].base)
        /\ res[p].add = "True"

C2_WitnessBlock ==
    \E p \in Procs :
        /\ last[p].call = "list_rules" /\ last[p].op = "block" /\ last[p].based
        /\ loc[p].category_id \in Range(last[p].base)
        /\ res[p].block = "True"

\* C3: block_url_in_rule run a second time with the same rule and url, after a first run
\* that succeeded and left the url in the block category and the category in the rule,
\* succeeds without any write call and leaves the remote as the first run left it.
C3_SecondCallNoChange ==
    (/\ pc[2] = "exited"
     /\ exitCode[1] = 0
     /\ shape = "dict"
     /\ args[2].block # None
     /\ BlockedIn(pre[2], "1", args[2].block))
    => (exitCode[2] = 0 /\ loc[2].writes = 0 /\ Remote = pre[2])

\* C4: once list_rules or list_categories has failed in an operation (an error element or
\* an exception), that operation issues no write call.
C4_NoWriteAfterFailedRead ==
    [][\A p \in Procs :
        loc[p].failedRead \in {"list_rules", "list_categories"}
        => loc'[p].writes <= loc[p].writes]_vars

\* C5: no step removes an entry from a rule's category list or from a category's url list.
C5_OnlyAdds ==
    [][/\ \A i \in 1..Len(rules) :
            Range(rules[i].urlCategories) \subseteq Range(rules'[i].urlCategories)
       /\ \A i \in 1..Len(cats) :
            Range(cats[i].urls) \subseteq Range(cats'[i].urls)]_vars

\* C6: two add_category_to_rule calls on the same rule that ran one after the other and
\* both returned True leave both categories in the rule's list.
C6_SerializedKeepsBoth ==
    (/\ pc[1] = "exited" /\ pc[2] = "exited"
     /\ 1 \in doneBefore[2]
     /\ res[1].add = "True" /\ res[2].add = "True")
    => {args[1].add, args[2].add} \subseteq Range(RuleCats(rules, "1"))

\* C6, the race: both calls fetched the same list, both wrote and returned True, and the
\* rule's list lacks one of the two categories.
C6_LostUpdate ==
    /\ shape = "dict"
    /\ pc[1] = "exited" /\ pc[2] = "exited"
    /\ 1 \notin doneBefore[2]
    /\ last[1].call = "update_rule" /\ last[1].out = "ok"
    /\ last[2].call = "update_rule" /\ last[2].out = "ok"
    /\ last[1].base = last[2].base
    /\ res[1].add = "True" /\ res[2].add = "True"
    /\ ~({args[1].add, args[2].add} \subseteq Range(RuleCats(rules, "1")))

C8_NoCaseDuplicates ==
    \A p \in Procs :
        (shape = "dict" /\ last[p].call = "update_rule" /\ last[p].op = "add")
        => FoldUnique(last[p].payload)

\* C9: when update_rule answers with an error element, the operation has returned False
\* after that one update_rule call, `success` is False, and an exit is with code 1.
C9_WriteErrorEndsInError ==
    \A p \in Procs :
        (last[p].call = "update_rule" /\ last[p].out \in {"error", "exists"})
        => /\ res[p][last[p].op] = "False"
           /\ loc[p].op = last[p].op
           /\ loc[p].updates = 1
           /\ ~success[p]
           /\ pc[p] \notin {"add_write", "blk_rulewrite", "act_write"}
           /\ pc[p] = "exited" => exitCode[p] = 1

C9_Witness ==
    \E p \in Procs :
        /\ last[p].call = "update_rule" /\ last[p].out = "error" /\ last[p].op = "add"
        /\ res[p].add = "False"
        /\ pc[p] = "exited"

\* C10: when update_rule raises (connection error, timeout), the operation has attempted
\* it three times before it returns False.
C10_RaisedCallTriedThreeTimes ==
    \A p \in Procs :
        (last[p].call = "update_rule" /\ last[p].out = "raise")
        => (loc[p].updates = 3 /\ res[p][last[p].op] = "False")


\* C11: update_rule_action called with an action that is not ALLOW, BLOCK, CAUTION or
\* ISOLATE after upper-casing has returned False without any SDK call (no list_rules, no
\* update_rule), and the remote is as it was.
C11_InvalidActionRejectedFirst ==
    \A p \in Procs :
        (/\ args[p].direct
         /\ Upper(args[p].action) \notin {"ALLOW", "BLOCK", "CAUTION", "ISOLATE"}
         /\ pc[p] # "act_fetch")
        => /\ pc[p] = "returned"
           /\ res[p].action = "False"
           /\ last[p] = NoCall
           /\ loc[p].writes = 0 /\ loc[p].updates = 0
           /\ Remote = pre[p]

C11_Witness ==
    \E p \in Procs :
        /\ args[p].direct /\ args[p].action = "DENY"
        /\ pc[p] = "returned" /\ res[p].action = "False"
        /\ last[p] = NoCall


\* the operations the command line asked for that returned False
FailedOps(p) == {op \in {"add", "block", "action"} : res[p][op] = "False"}

\* C12: a run that got past the parser exits with code 0 exactly when none of the
\* operations it ran returned False.
C12_ExitCodeReflectsEveryOperation ==
    \A p \in Procs :
        (pc[p] = "exited" /\ exitCode[p] # 2)
        => (exitCode[p] = 0 <=> FailedOps(p) = {})


\* the invocation whose step this is writes the rule it named, in an operation of kind ops
WritesRule(p, i, ops) ==
    /\ pc[p] \in ops
    /\ pc'[p] # pc[p]
    /\ (rules[i].name = args[p].rule \/ rules[i].id = args[p].rule)

C14_AlreadyExistsIsSuccess ==
    \A p \in Procs :
        (last[p].kind = "write" /\ last[p].out = "exists")
        => res[p][last[p].op] # "False"

\* C14 as amended: an "already exists" error on a category write (add_urls_to_category,
\* update_url_category) ends step 2 of block_url_in_rule with True: the operation has not
\* failed and is at step 3, past every write of the url. The same error on update_rule
\* makes the operation return False.
C14_AlreadyExistsOnCategoryWrite ==
    \A p \in Procs :
        /\ (/\ last[p].call \in {"add_urls_to_category", "update_url_category"}
            /\ last[p].out = "exists")
           => (pc[p] = "blk_rulefetch" /\ res[p].block = None)
        /\ (last[p].call = "update_rule" /\ last[p].out = "exists")
           => res[p][last[p].op] = "False"

C14_Witness ==
    \E p \in Procs :
        /\ last[p].call = "add_urls_to_category" /\ last[p].out = "exists"
        /\ pc[p] = "blk_rulefetch"
        /\ args[p].block \in Range(CatUrls(cats, loc[p].category_id))


BlockPcs == {"blk_list", "blk_create", "blk_addurl", "blk_getcat", "blk_updcat",
             "blk_rulefetch", "blk_rulewrite"}

\* step 2 of block_url_in_rule has just ended with True
UrlStepSucceeded(call, url) ==
    \/ call.call \in {"add_urls_to_category", "update_url_category"} /\ call.out \in {"ok", "exists"}
    \/ call.call = "get_category" /\ call.out # "raise" /\ url \in Range(call.base)

\* C15: block_url_in_rule takes its steps in order and stops at the first that fails:
\* step 2 begins only after step 1 gave the id of a category of the remote, a url write
\* is issued only with such an id, step 3 begins only when step 2 succeeded, update_rule
\* is called only after step 3 fetched the rule, the call returns True only from a
\* successful step 3, and a False ends it.
C15_BlockStepsInOrder ==
    [][\A p \in Procs :
        /\ (pc'[p] = "blk_addurl" /\ pc[p] # "blk_addurl")
           => /\ pc[p] \in {"blk_list", "blk_create"}
              /\ last'[p].out = "ok"
              /\ \E i \in 1..Len(cats') : cats'[i].id = loc'[p].category_id
        /\ (/\ loc'[p].writes > loc[p].writes
            /\ last'[p].call \in {"add_urls_to_category", "update_url_category"})
           => /\ pc[p] \in {"blk_addurl", "blk_updcat"}
              /\ \E i \in 1..Len(cats) : cats[i].id = loc[p].category_id
        /\ (pc'[p] = "blk_getcat" /\ pc[p] # "blk_getcat") => pc[p] = "blk_addurl"
        /\ (pc'[p] = "blk_updcat" /\ pc[p] # "blk_updcat") => pc[p] = "blk_getcat"
        /\ (pc'[p] = "blk_rulefetch" /\ pc[p] # "blk_rulefetch")
           => /\ pc[p] \in {"blk_addurl", "blk_getcat", "blk_updcat"}
              /\ UrlStepSucceeded(last'[p], args[p].block)
        /\ (pc'[p] = "blk_rulewrite" /\ pc[p] # "blk_rulewrite")
           => /\ pc[p] = "blk_rulefetch"
              /\ last'[p].call = "list_rules" /\ last'[p].out = "ok"
        /\ (loc'[p].updates > loc[p].updates /\ last'[p].op = "block")
           => pc[p] = "blk_rulewrite"
        /\ (res'[p].block = "True" /\ res[p].block # "True")
           => /\ pc[p] \in {"blk_rulefetch", "blk_rulewrite"}
              /\ \/ /\ last'[p].call = "list_rules" /\ last'[p].out = "ok"
                    /\ loc[p].category_id \in Range(last'[p].base)
                 \/ last'[p].call = "update_rule" /\ last'[p].out = "ok"
        /\ (res'[p].block = "False" /\ res[p].block # "False")
           => /\ pc'[p] \notin BlockPcs
              /\ ~success'[p]]_vars

C15_Witness ==
    \E p \in Procs :
        /\ res[p].block = "True" /\ loc[p].op = "block"
        /\ last[p].call = "update_rule" /\ last[p].out = "ok"
        /\ loc[p].writes = 3
        /\ BlockedIn(Remote, "1", args[p].block)

BlockCategories(cs) == {i \in 1..Len(cs) : cs[i].configuredName = BlockName}

\* C16: _get_or_create_block_category calls add_url_category only when the remote holds
\* no category whose configuredName is the requested name, so that the remote never
\* holds more than one category named Blocked_URLs_Automation.
C16_CreateOnlyWhenAbsent ==
    /\ \A p \in Procs :
        last[p].call = "add_url_category" => BlockCategories(pre[p].cats) = {}
    /\ Cardinality(BlockCategories(cats)) <= 1

\* a block_url_in_rule call that returned True and left two categories of that name
C16_DuplicateCategory ==
    \E p \in Procs :
        /\ res[p].block = "True"
        /\ Cardinality(BlockCategories(pre[p].cats)) = 1
        /\ Cardinality(BlockCategories(cats)) = 2

====
